---- MODULE Spec2Model ----
(***************************************************************************)
(* Model of genotype.py: the multiplexed genotyping script.  The input     *)
(* stream is cut into experiments by input_parser, each experiment is      *)
(* resolved by process_experiment, and output_results renders the          *)
(* resolution.  Text is modelled as sequences of one-character strings so  *)
(* that strip, split, int and join are computed rather than assumed.       *)
(***************************************************************************)
EXTENDS Integers, Sequences, FiniteSets, TLC

\* Largest number of lines in an input stream.
MaxLines == 3

----------------------------------------------------------------------------
\* Text constants of the program.

MUT == <<"M", "U", "T">>
NORM == <<"N", "O", "R", "M">>
NONUNIQUE == <<"N", "O", "N", "U", "N", "I", "Q", "U", "E">>
INCONSISTENT == <<"I", "N", "C", "O", "N", "S", "I", "S", "T", "E", "N", "T">>
MUT_COUNT == <<"M", "U", "T", " ", "C", "O", "U", "N", "T", ":", " ">>
NORM_COUNT == <<"N", "O", "R", "M", " ", "C", "O", "U", "N", "T", ":", " ">>

\* The lines an input stream is made of, without their line terminator.
InputLines ==
    { <<>>,
      <<" ">>,
      <<"M", "U", "T">>,
      <<"N", "O", "R", "M">>,
      <<"M", "U", "T", ",", "1">>,
      <<"M", "U", "T", ",", "1", ",", "2">>,
      <<"M", "U", "T", ",", "1", "2", ",", "1", "0", "0">>,
      <<"N", "O", "R", "M", ",", "1">>,
      <<"N", "O", "R", "M", ",", "0", "1">>,
      <<"N", "O", "R", "M", ",", "1", "0", "0", ",", "1", "2">>,
      <<"N", "O", "R", "M", ",", "x">>,
      <<"m", "u", "t", ",", "2">> }

\* All input streams of at most MaxLines lines.
InputFiles == UNION { [1..n -> InputLines] : n \in 0..MaxLines }

----------------------------------------------------------------------------
\* Python built-ins used by the program.

Whitespace == {" ", "\n"}

RECURSIVE lstrip(_)
lstrip(s) ==
    IF s = <<>> THEN s
    ELSE IF Head(s) \in Whitespace THEN lstrip(Tail(s)) ELSE s

RECURSIVE rstrip(_)
rstrip(s) ==
    IF s = <<>> THEN s
    ELSE IF s[Len(s)] \in Whitespace THEN rstrip(SubSeq(s, 1, Len(s) - 1))
    ELSE s

\* str.strip()
strip(s) == rstrip(lstrip(s))

RECURSIVE SplitAcc(_, _, _)
SplitAcc(s, fields, cur) ==
    IF s = <<>> THEN Append(fields, cur)
    ELSE IF Head(s) = ","
         THEN SplitAcc(Tail(s), Append(fields, cur), <<>>)
         ELSE SplitAcc(Tail(s), fields, Append(cur, Head(s)))

\* str.split(",")
split(s) == SplitAcc(s, <<>>, <<>>)

Digits == {"0", "1", "2", "3", "4", "5", "6", "7", "8", "9"}

DigitValue(c) ==
    CASE c = "0" -> 0 [] c = "1" -> 1 [] c = "2" -> 2 [] c = "3" -> 3
      [] c = "4" -> 4 [] c = "5" -> 5 [] c = "6" -> 6 [] c = "7" -> 7
      [] c = "8" -> 8 [] c = "9" -> 9

DigitChar(d) ==
    CASE d = 0 -> "0" [] d = 1 -> "1" [] d = 2 -> "2" [] d = 3 -> "3"
      [] d = 4 -> "4" [] d = 5 -> "5" [] d = 6 -> "6" [] d = 7 -> "7"
      [] d = 8 -> "8" [] d = 9 -> "9"

\* int(s) raises ValueError unless s, stripped of surrounding whitespace,
\* is a non-empty run of digits.
IntRaises(s) ==
    LET t == strip(s)
    IN  t = <<>> \/ \E i \in 1..Len(t) : t[i] \notin Digits

RECURSIVE IntAcc(_, _)
IntAcc(t, acc) ==
    IF t = <<>> THEN acc ELSE IntAcc(Tail(t), 10 * acc + DigitValue(Head(t)))

\* int(s), for s accepted by int
int(s) == IntAcc(strip(s), 0)

RECURSIVE FormatAcc(_)
FormatAcc(n) ==
    IF n < 10 THEN <<DigitChar(n)>>
    ELSE Append(FormatAcc(n \div 10), DigitChar(n % 10))

\* "{0}".format(n) for a non-negative integer
format(n) == FormatAcc(n)

\* ",".join(line) for a (sample_id, call) pair
join(line) == line[1] \o <<",">> \o line[2]

\* set(samples)
set(samples) == { samples[i] : i \in 1..Len(samples) }

\* The orders in which iterating over a set can deliver its members.
IterationOrders(S) ==
    { f \in [1..Cardinality(S) -> S] :
        \A i, j \in 1..Cardinality(S) : i # j => f[i] # f[j] }

----------------------------------------------------------------------------
\* The deduction functions.

\* filter_mutants returning the pools as they came.
filter_mutants_unfiltered(mutant_sample_sets, normal_samples) ==
    mutant_sample_sets

\* filter_mutants
filter_mutants(mutant_sample_sets, normal_samples) ==
    [i \in 1..Len(mutant_sample_sets) |-> mutant_sample_sets[i] \ normal_samples]

\* get_single_mutants taking a member of every non-empty pool.
get_single_mutants_any(filtered_mutants) ==
    { CHOOSE s \in filtered_mutants[i] : TRUE :
        i \in { j \in 1..Len(filtered_mutants) :
                  Cardinality(filtered_mutants[j]) >= 1 } }

\* get_single_mutants
get_single_mutants(filtered_mutants) ==
    { CHOOSE s \in filtered_mutants[i] : TRUE :
        i \in { j \in 1..Len(filtered_mutants) :
                  Cardinality(filtered_mutants[j]) = 1 } }

\* check_unique
check_unique(filtered_mutants, single_mutants) ==
    ~ \E i \in 1..Len(filtered_mutants) :
        Cardinality(filtered_mutants[i] \ single_mutants) > 1

\* check_consistent comparing the pool size with < 0.
check_consistent_below_zero(filtered_mutants) ==
    ~ \E i \in 1..Len(filtered_mutants) :
        Cardinality(filtered_mutants[i]) < 0

\* check_consistent
check_consistent(filtered_mutants) ==
    ~ \E i \in 1..Len(filtered_mutants) :
        Cardinality(filtered_mutants[i]) = 0

\* The loop of process_experiment with a plain else in place of the
\* elif on "NORM".
RECURSIVE collect_normal_samples_else(_)
collect_normal_samples_else(experiment) ==
    IF experiment = <<>> THEN {}
    ELSE LET test_set == experiment[Len(experiment)]
             state == test_set[1]
             samples == Tail(test_set)
             before == collect_normal_samples_else(SubSeq(experiment, 1, Len(experiment) - 1))
         IN  IF state = MUT THEN before
             ELSE before \cup set(samples)

\* The loop of process_experiment, normal_samples part.
RECURSIVE collect_normal_samples(_)
collect_normal_samples(experiment) ==
    IF experiment = <<>> THEN {}
    ELSE LET test_set == experiment[Len(experiment)]
             state == test_set[1]
             samples == Tail(test_set)
             before == collect_normal_samples(SubSeq(experiment, 1, Len(experiment) - 1))
         IN  IF state = MUT THEN before
             ELSE IF state = NORM THEN before \cup set(samples)
             ELSE before

\* The loop of process_experiment skipping the MUT records without samples.
RECURSIVE collect_mutant_sample_sets_nonempty(_)
collect_mutant_sample_sets_nonempty(experiment) ==
    IF experiment = <<>> THEN <<>>
    ELSE LET test_set == experiment[Len(experiment)]
             state == test_set[1]
             samples == Tail(test_set)
             before == collect_mutant_sample_sets_nonempty(SubSeq(experiment, 1, Len(experiment) - 1))
         IN  IF state = MUT /\ samples # <<>> THEN Append(before, set(samples))
             ELSE before

\* The loop of process_experiment, mutant_sample_sets part.
RECURSIVE collect_mutant_sample_sets(_)
collect_mutant_sample_sets(experiment) ==
    IF experiment = <<>> THEN <<>>
    ELSE LET test_set == experiment[Len(experiment)]
             state == test_set[1]
             samples == Tail(test_set)
             before == collect_mutant_sample_sets(SubSeq(experiment, 1, Len(experiment) - 1))
         IN  IF state = MUT THEN Append(before, set(samples))
             ELSE before

Failure(reason) ==
    [success |-> FALSE, reason |-> reason, single_mutants |-> {}, normal_samples |-> {}]

Success(single_mutants, normal_samples) ==
    [success |-> TRUE, reason |-> <<>>, single_mutants |-> single_mutants,
     normal_samples |-> normal_samples]

\* process_experiment with the two checks in the other order.
process_experiment_consistent_first(experiment) ==
    LET normal_samples == collect_normal_samples(experiment)
        mutant_sample_sets == collect_mutant_sample_sets(experiment)
        filtered_mutants == filter_mutants(mutant_sample_sets, normal_samples)
        single_mutants == get_single_mutants(filtered_mutants)
    IN  IF ~ check_consistent(filtered_mutants) THEN Failure(INCONSISTENT)
        ELSE IF ~ check_unique(filtered_mutants, single_mutants) THEN Failure(NONUNIQUE)
        ELSE Success(single_mutants, normal_samples)

\* process_experiment
process_experiment(experiment) ==
    LET normal_samples == collect_normal_samples(experiment)
        mutant_sample_sets == collect_mutant_sample_sets(experiment)
        filtered_mutants == filter_mutants(mutant_sample_sets, normal_samples)
        single_mutants == get_single_mutants(filtered_mutants)
    IN  IF ~ check_unique(filtered_mutants, single_mutants) THEN Failure(NONUNIQUE)
        ELSE IF ~ check_consistent(filtered_mutants) THEN Failure(INCONSISTENT)
        ELSE Success(single_mutants, normal_samples)

----------------------------------------------------------------------------
\* Rendering.

\* Insertion of one call into a list sorted by int(sample_id), after every
\* call whose key is not larger (list.sort is stable).
RECURSIVE insort(_, _)
insort(sorted, call) ==
    IF sorted = <<>> THEN <<call>>
    ELSE IF int(sorted[Len(sorted)][1]) <= int(call[1]) THEN Append(sorted, call)
    ELSE Append(insort(SubSeq(sorted, 1, Len(sorted) - 1), call), sorted[Len(sorted)])

RECURSIVE sortAcc(_, _)
sortAcc(calls, sorted) ==
    IF calls = <<>> THEN sorted
    ELSE sortAcc(Tail(calls), insort(sorted, Head(calls)))

\* final_calls left in the order the two loops built it.
sort_skipped(final_calls) == final_calls

\* final_calls.sort(key=lambda x: int(x[0]))
sort(final_calls) == sortAcc(final_calls, <<>>)

\* final_calls as the two for loops build it from given iteration orders.
final_calls(mut_order, norm_order) ==
    [i \in 1..Len(mut_order) |-> <<mut_order[i], MUT>>]
    \o [i \in 1..Len(norm_order) |-> <<norm_order[i], NORM>>]

\* What output_results writes for a success, one element per line.
success_lines(n_mut, n_norm, sorted_calls) ==
    << MUT_COUNT \o format(n_mut), NORM_COUNT \o format(n_norm) >>
    \o [i \in 1..Len(sorted_calls) |-> join(sorted_calls[i])]
    \o << <<>> >>

----------------------------------------------------------------------------
\* The program.

VARIABLES
    input_file,   \* the lines of args.input
    pos,          \* number of lines the parser has read
    experiment,   \* input_parser's list of records
    gen,          \* where input_parser stands: "loop", "yield95", "yield100", "returned"
    pc,           \* where main stands: "next", "process", "output", "done", "raised"
    result,       \* (success, results) of the current experiment
    output,       \* the lines written to args.output
    yielded       \* the experiments input_parser has yielded so far

vars == <<input_file, pos, experiment, gen, pc, result, output, yielded>>

NoResult == Failure(<<>>)

Init ==
    /\ input_file \in InputFiles
    /\ pos = 0
    /\ experiment = <<>>
    /\ gen = "loop"
    /\ pc = "next"
    /\ result = NoResult
    /\ output = <<>>
    /\ yielded = <<>>

\* The line the file iterator delivers next, stripped.
NextLine == strip(input_file[pos + 1] \o <<"\n">>)

\* input_parser: a non-empty line is split and appended.
ParseRecord ==
    /\ pc = "next" /\ gen = "loop"
    /\ pos < Len(input_file)
    /\ NextLine # <<>>
    /\ experiment' = Append(experiment, split(NextLine))
    /\ pos' = pos + 1
    /\ UNCHANGED <<input_file, gen, pc, result, output, yielded>>

\* input_parser: an empty line yields the experiment.
YieldOnEmptyLine ==
    /\ pc = "next" /\ gen = "loop"
    /\ pos < Len(input_file)
    /\ NextLine = <<>>
    /\ pos' = pos + 1
    /\ gen' = "yield95"
    /\ yielded' = Append(yielded, experiment)
    /\ pc' = "process"
    /\ UNCHANGED <<input_file, experiment, result, output>>

\* input_parser: resumed after the yield in the loop, starts a new list.
ResumeLoop ==
    /\ pc = "next" /\ gen = "yield95"
    /\ experiment' = <<>>
    /\ gen' = "loop"
    /\ UNCHANGED <<input_file, pos, pc, result, output, yielded>>

\* input_parser: at end of input a non-empty experiment is yielded.
YieldFinal ==
    /\ pc = "next" /\ gen = "loop"
    /\ pos = Len(input_file)
    /\ experiment # <<>>
    /\ gen' = "yield100"
    /\ yielded' = Append(yielded, experiment)
    /\ pc' = "process"
    /\ UNCHANGED <<input_file, pos, experiment, result, output>>

\* input_parser returns; the for loop of main ends.
StopIteration ==
    /\ pc = "next"
    /\ \/ gen = "loop" /\ pos = Len(input_file) /\ experiment = <<>>
       \/ gen = "yield100"
    /\ gen' = "returned"
    /\ pc' = "done"
    /\ UNCHANGED <<input_file, pos, experiment, result, output, yielded>>

\* main: success, results = process_experiment(experiment)
ProcessExperiment ==
    /\ pc = "process"
    /\ result' = process_experiment(experiment)
    /\ pc' = "output"
    /\ UNCHANGED <<input_file, pos, experiment, gen, output, yielded>>

\* output_results on a failure ending the run.
OutputFailure_exits ==
    /\ pc = "output"
    /\ ~ result.success
    /\ output' = output \o << result.reason, <<>> >>
    /\ pc' = "done"
    /\ UNCHANGED <<input_file, pos, experiment, gen, result, yielded>>

\* output_results, not success
OutputFailure ==
    /\ pc = "output"
    /\ ~ result.success
    /\ output' = output \o << result.reason, <<>> >>
    /\ pc' = "next"
    /\ UNCHANGED <<input_file, pos, experiment, gen, result, yielded>>

\* output_results, success, every key of the sort computed
OutputSuccess ==
    /\ pc = "output"
    /\ result.success
    /\ \A s \in result.single_mutants \cup result.normal_samples : ~ IntRaises(s)
    /\ \E mut_order \in IterationOrders(result.single_mutants),
          norm_order \in IterationOrders(result.normal_samples) :
          output' = output \o
              success_lines(Cardinality(result.single_mutants),
                            Cardinality(result.normal_samples),
                            sort(final_calls(mut_order, norm_order)))
    /\ pc' = "next"
    /\ UNCHANGED <<input_file, pos, experiment, gen, result, yielded>>

\* output_results, success, int() raises ValueError inside the sort, which
\* comes before the first write; nothing catches it.
OutputRaises ==
    /\ pc = "output"
    /\ result.success
    /\ \E s \in result.single_mutants \cup result.normal_samples : IntRaises(s)
    /\ pc' = "raised"
    /\ UNCHANGED <<input_file, pos, experiment, gen, result, output, yielded>>

Next ==
    \/ ParseRecord
    \/ YieldOnEmptyLine
    \/ ResumeLoop
    \/ YieldFinal
    \/ StopIteration
    \/ ProcessExperiment
    \/ OutputFailure
    \/ OutputSuccess
    \/ OutputRaises

Spec == Init /\ [][Next]_vars

----------------------------------------------------------------------------
\* What an experiment says, read off its records directly.

Recognized(test_set) == test_set[1] \in {MUT, NORM}

\* The identifiers of the NORM records.
NormIds(e) ==
    UNION { set(Tail(e[i])) : i \in { j \in 1..Len(e) : e[j][1] = NORM } }

\* The pools of the MUT records.
MutPools(e) ==
    { set(Tail(e[i])) : i \in { j \in 1..Len(e) : e[j][1] = MUT } }

\* Every identifier of a MUT or NORM record.
Universe(e) == NormIds(e) \cup UNION MutPools(e)

\* The identifiers that are alone in a MUT pool once the normal ones are removed.
Singles(e) ==
    { s \in Universe(e) : \E P \in MutPools(e) : P \ NormIds(e) = {s} }

\* Some MUT pool still holds more than one identifier after removing the
\* normal samples and the single mutants.
Ambiguous(e) ==
    \E P \in MutPools(e) : Cardinality((P \ NormIds(e)) \ Singles(e)) > 1

\* Every identifier of some MUT pool is also in a NORM record.
EmptyPool(e) == \E P \in MutPools(e) : P \subseteq NormIds(e)

Remove(e, p) == SubSeq(e, 1, p - 1) \o SubSeq(e, p + 1, Len(e))

ZeroSample(test_set) == Len(test_set) = 1 /\ Recognized(test_set)

Resolved == pc = "output"

----------------------------------------------------------------------------
\* C1: on success the single mutants and the normal samples together are
\* all the identifiers of the MUT and NORM records of the experiment.
C1_Coverage ==
    (Resolved /\ result.success) =>
        result.single_mutants \cup result.normal_samples = Universe(experiment)

\* C2: on success the single-mutant set and the normal set share no identifier.
C2_Disjoint ==
    (Resolved /\ result.success) =>
        result.single_mutants \cap result.normal_samples = {}

C2_Witness ==
    /\ Resolved /\ result.success
    /\ result.single_mutants # {}
    /\ \E P \in MutPools(experiment) : P \cap result.normal_samples # {}

\* C3: the result is NONUNIQUE exactly when some MUT pool, after removing the
\* normal samples and the single mutants, holds more than one identifier;
\* an experiment that also has an emptied MUT pool is still NONUNIQUE.
C3_NonuniqueFirst ==
    Resolved =>
        /\ (result = Failure(NONUNIQUE)) <=> Ambiguous(experiment)
        /\ (Ambiguous(experiment) /\ EmptyPool(experiment)) =>
               result.reason # INCONSISTENT

C3_Witness ==
    /\ Resolved
    /\ Ambiguous(experiment)
    /\ \E P \in MutPools(experiment) : P # {} /\ P \subseteq NormIds(experiment)
    /\ result = Failure(NONUNIQUE)

\* C4 as stated: an experiment with a MUT record whose identifiers all occur
\* in NORM records resolves to INCONSISTENT.
C4_EmptyPoolInconsistent ==
    (Resolved /\ EmptyPool(experiment)) => result = Failure(INCONSISTENT)

\* C4 amended: an experiment with a MUT record whose identifiers all occur in
\* NORM records fails, with INCONSISTENT unless some MUT pool is ambiguous,
\* and then with NONUNIQUE.
C4_EmptyPoolFails ==
    (Resolved /\ EmptyPool(experiment)) =>
        result = IF Ambiguous(experiment) THEN Failure(NONUNIQUE)
                 ELSE Failure(INCONSISTENT)

C4_Witness ==
    /\ Resolved
    /\ \E P \in MutPools(experiment) : P # {} /\ P \subseteq NormIds(experiment)
    /\ ~ Ambiguous(experiment)
    /\ result = Failure(INCONSISTENT)

\* C5: the records whose state is neither MUT nor NORM do not count: the
\* result is the result of the experiment without them, and an identifier
\* found only in them is in neither returned set.
C5_UnrecognizedIgnored ==
    Resolved =>
        /\ result = process_experiment(SelectSeq(experiment, Recognized))
        /\ \A i \in 1..Len(experiment) :
              ~ Recognized(experiment[i]) =>
                  \A s \in set(Tail(experiment[i])) \ Universe(experiment) :
                      s \notin result.single_mutants \cup result.normal_samples

C5_Witness ==
    /\ Resolved /\ result.success
    /\ result.normal_samples # {}
    /\ \E i \in 1..Len(experiment) :
          /\ ~ Recognized(experiment[i])
          /\ set(Tail(experiment[i])) \ Universe(experiment) # {}

\* C6 as stated: a MUT or NORM record without identifiers does not change
\* the result of the experiment.
C6_ZeroSampleNoOp ==
    Resolved =>
        \A p \in 1..Len(experiment) :
            ZeroSample(experiment[p]) =>
                result = process_experiment(Remove(experiment, p))

\* C6 amended: a NORM record without identifiers does not change the result;
\* a MUT record without identifiers leaves NONUNIQUE as it is and turns
\* every other result into INCONSISTENT.
C6_ZeroSampleEffect ==
    Resolved =>
        \A p \in 1..Len(experiment) :
            ZeroSample(experiment[p]) =>
                LET without == process_experiment(Remove(experiment, p))
                IN  IF experiment[p][1] = NORM THEN result = without
                    ELSE result = IF without = Failure(NONUNIQUE) THEN without
                                  ELSE Failure(INCONSISTENT)

C6_Witness ==
    /\ Resolved
    /\ \E p \in 1..Len(experiment) :
          /\ experiment[p] = <<MUT>>
          /\ process_experiment(Remove(experiment, p)).success
          /\ process_experiment(Remove(experiment, p)).normal_samples # {}
    /\ \E p \in 1..Len(experiment) : experiment[p] = <<NORM>>
    /\ result = Failure(INCONSISTENT)

\* The blocks of an output: the lines between two empty lines.
RECURSIVE BlocksAcc(_, _, _)
BlocksAcc(lines, blocks, cur) ==
    IF lines = <<>> THEN (IF cur = <<>> THEN blocks ELSE Append(blocks, cur))
    ELSE IF Head(lines) = <<>>
         THEN BlocksAcc(Tail(lines), Append(blocks, cur), <<>>)
         ELSE BlocksAcc(Tail(lines), blocks, Append(cur, Head(lines)))

Blocks(lines) == BlocksAcc(lines, <<>>, <<>>)

Terminated(lines) == lines = <<>> \/ lines[Len(lines)] = <<>>

\* The text of a line after a prefix of the length of head.
After(line, head) == SubSeq(line, Len(head) + 1, Len(line))

StartsWith(line, head) ==
    Len(line) >= Len(head) /\ SubSeq(line, 1, Len(head)) = head

\* A block is the rendering of a resolution r: the reason alone for a
\* failure, the two counts and one line per resolved sample for a success.
BlockOf(block, r) ==
    IF ~ r.success THEN block = <<r.reason>>
    ELSE /\ Len(block) = 2 + Cardinality(r.single_mutants)
                           + Cardinality(r.normal_samples)
         /\ StartsWith(block[1], MUT_COUNT)
         /\ ~ IntRaises(After(block[1], MUT_COUNT))
         /\ int(After(block[1], MUT_COUNT)) = Cardinality(r.single_mutants)
         /\ StartsWith(block[2], NORM_COUNT)
         /\ ~ IntRaises(After(block[2], NORM_COUNT))
         /\ int(After(block[2], NORM_COUNT)) = Cardinality(r.normal_samples)

\* output_results has just returned.
Written == pc = "next" /\ gen \in {"yield95", "yield100"}

\* Number of experiments whose call of output_results has returned.
Reported == IF pc \in {"next", "done"} THEN Len(yielded) ELSE Len(yielded) - 1

\* C7 as stated: whatever the input, every experiment yielded by
\* input_parser gets its block, in order, ended by an empty line, the block
\* being the rendering of that experiment's own resolution, and the loop
\* goes on to the end of the input.
C7_OneBlockPerExperiment ==
    /\ Terminated(output)
    /\ pc \notin {"process", "output"} => Len(Blocks(output)) = Len(yielded)
    /\ \A i \in 1..Len(Blocks(output)) :
          i <= Len(yielded) /\ BlockOf(Blocks(output)[i], process_experiment(yielded[i]))
    /\ pc = "done" => pos = Len(input_file)

\* C7 amended: the same, as long as no successfully resolved experiment
\* holds an identifier that int() rejects; NONUNIQUE and INCONSISTENT never
\* stop the loop, only such an identifier does, before its block is written.
C7_FailuresDoNotAbort ==
    /\ Terminated(output)
    /\ Len(Blocks(output)) = Reported
    /\ \A i \in 1..Len(Blocks(output)) :
          i <= Len(yielded) /\ BlockOf(Blocks(output)[i], process_experiment(yielded[i]))
    /\ pc = "done" => pos = Len(input_file)
    /\ pc = "raised" =>
          /\ result.success
          /\ \E s \in result.single_mutants \cup result.normal_samples : IntRaises(s)

C7_Witness ==
    /\ pc = "done"
    /\ Len(yielded) = 2
    /\ ~ process_experiment(yielded[1]).success
    /\ process_experiment(yielded[2]).success
    /\ Len(Blocks(output)) = 2

\* C8: for a success with integer identifiers the block is MUT COUNT: n,
\* NORM COUNT: m, then n + m distinct sample lines, one per resolved sample
\* with its call, in ascending order of int(identifier), then an empty line.
C8_SuccessRendering ==
    (Written /\ result.success) =>
        LET block == Blocks(output)[Len(Blocks(output))]
            n == Cardinality(result.single_mutants)
            m == Cardinality(result.normal_samples)
            call(k) == split(block[2 + k])
        IN  /\ Terminated(output)
            /\ Len(block) = 2 + n + m
            /\ block[1] = MUT_COUNT \o format(n)
            /\ block[2] = NORM_COUNT \o format(m)
            /\ \A k \in 1..(n + m) :
                  /\ Len(call(k)) = 2
                  /\ call(k)[2] = MUT <=> call(k)[1] \in result.single_mutants
                  /\ call(k)[2] = NORM <=> call(k)[1] \in result.normal_samples
            /\ { call(k)[1] : k \in 1..(n + m) } =
                   result.single_mutants \cup result.normal_samples
            /\ \A j, k \in 1..(n + m) : j # k => block[2 + j] # block[2 + k]
            /\ \A k \in 1..(n + m - 1) : int(call(k)[1]) <= int(call(k + 1)[1])

C8_Witness ==
    /\ Written /\ result.success
    /\ result.single_mutants # {}
    /\ {<<"1", "2">>, <<"1", "0", "0">>} \subseteq result.normal_samples
    /\ \E k \in 1..(Len(output) - 1) :
          /\ output[k] = <<"1", "2", ",">> \o NORM
          /\ output[k + 1] = <<"1", "0", "0", ",">> \o NORM

\* The maximal runs of consecutive non-empty lines of a stream, as records.
Blank(line) == strip(line \o <<"\n">>) = <<>>

RunStarts(f) ==
    { i \in 1..Len(f) : ~ Blank(f[i]) /\ (i = 1 \/ Blank(f[i - 1])) }

RunEnd(f, i) ==
    CHOOSE j \in i..Len(f) :
        /\ \A k \in i..j : ~ Blank(f[k])
        /\ j = Len(f) \/ Blank(f[j + 1])

NthStart(f, k) ==
    CHOOSE i \in RunStarts(f) : Cardinality({ j \in RunStarts(f) : j < i }) = k - 1

MaximalRuns(f) ==
    [k \in 1..Cardinality(RunStarts(f)) |->
        [j \in 1..(RunEnd(f, NthStart(f, k)) - NthStart(f, k) + 1) |->
            split(strip(f[NthStart(f, k) + j - 1] \o <<"\n">>))]]

\* C9: the experiments yielded by input_parser are exactly the maximal
\* non-empty runs of consecutive non-blank lines, in order; no experiment
\* without records is yielded.
C9_Grouping ==
    (gen = "returned") => yielded = MaximalRuns(input_file)

\* An assignment, given as the set of its mutant samples, is consistent when
\* no sample of a NORM pool is mutant and every MUT pool has a mutant sample.
Consistent(mutant, e) ==
    /\ mutant \cap NormIds(e) = {}
    /\ \A P \in MutPools(e) : P \cap mutant # {}

ConsistentAssignments(e) ==
    { mutant \in SUBSET Universe(e) : Consistent(mutant, e) }

\* C10: on success a consistent assignment exists, and in every consistent
\* assignment the returned single mutants are mutant and the returned normal
\* samples are normal.
C10_Sound ==
    (Resolved /\ result.success) =>
        /\ ConsistentAssignments(experiment) # {}
        /\ \A mutant \in ConsistentAssignments(experiment) :
              /\ result.single_mutants \subseteq mutant
              /\ result.normal_samples \cap mutant = {}

C10_Witness ==
    /\ Resolved /\ result.success
    /\ result.single_mutants # {}
    /\ result.normal_samples # {}
    /\ Cardinality(MutPools(experiment)) >= 2

====
